---- MODULE Spec2Model ----
(***************************************************************************)
(* ws-benchmark (src/src/main.rs): the ramping scheduler run_ramping_test, *)
(* the per-connection client run_client and the shared Metrics.            *)
(*                                                                         *)
(* Every Metrics counter and histogram is one shared object in the code.   *)
(* The model keeps, for each of them, the part contributed by each client  *)
(* task (a function of the client id); the shared value is the sum over    *)
(* the clients, defined below under the field's own name.                  *)
(***************************************************************************)
EXTENDS Integers, Sequences, FiniteSets, TLC

\* ------------------------------------------------------------- bounds
MaxClients == 2          \* largest --num-clients explored
MaxEvents == 3           \* inbound frames and timer ticks delivered in a run
RampTicks == 2           \* the non-zero --ramp-duration explored, in polls
PoolSize == 1            \* size of the non-empty token pool explored
InOrderEvents == 6       \* frames and ticks delivered in a run against an in-order server
LockEvents == 4          \* frames and ticks delivered in a run that follows the locks
SoloEvents == 5          \* frames and ticks delivered to the client of a one-client run
QuietEvents == 2         \* frames and ticks delivered in a run that follows the scheduler
ScenarioEvents == 4      \* frames and ticks delivered to the client of a run of any scenario
MaxPool == 3             \* longest token pool sampled
MaxCount == 4            \* largest small count asked of get_random_unique

\* ------------------------------------------------------- program constants
E2ELimit == 60000        \* "ignore if > 60s"
HistMaxTrackable == 65535 \* largest value Histogram::new_with_bounds(1, 60_000, 3) records
NowMs == 100000          \* the wall clock (ms since the epoch) at receipt
UpdateInterval == 5000   \* default --filter-update-interval

Clients == 0 .. (MaxClients - 1)

Min(a, b) == IF a < b THEN a ELSE b
Max(a, b) == IF a > b THEN a ELSE b

RECURSIVE SumOver(_, _)
SumOver(f, S) ==
    IF S = {} THEN 0
    ELSE LET x == CHOOSE y \in S : TRUE IN f[x] + SumOver(f, S \ {x})

VARIABLES
    \* Config
    num_clients, ramp_duration, scenario, pool_size, filter_update_interval,
    \* run_ramping_test
    phase, spawned, elapsed, joined,
    \* broadcast::Receiver of each client
    shutdown_rx,
    \* run_client: position and locals
    pc, exit_cause, subscribe_time, update_time, subscribed, is_updating, out,
    \* Metrics, by contributing client
    active_connections, conn_errors, sub_success, sub_failed, filter_upd,
    msgs_received, sub_hist, filter_hist, e2e_hist,
    \* the tokio Mutex around each histogram: who holds it
    mutex,
    \* run_client: the record a client's handler has reached at lock().await
    locking,
    \* environment: frames and ticks still to be delivered
    events,
    \* a function examined on its own, outside a run: its arguments and, once
    \* it has returned, its result
    call

cfgvars == <<num_clients, ramp_duration, scenario, pool_size, filter_update_interval>>
schedvars == <<phase, spawned, elapsed, joined>>
localvars == <<subscribe_time, update_time, subscribed, is_updating>>
metricvars == <<conn_errors, sub_success, sub_failed, filter_upd, msgs_received,
                sub_hist, filter_hist, e2e_hist>>
lockvars == <<mutex, locking>>
vars == <<cfgvars, schedvars, shutdown_rx, pc, exit_cause, localvars, out,
          active_connections, metricvars, lockvars, events, call>>

\* ------------------------------------------------ Metrics (shared totals)
subscribe_success == SumOver(sub_success, Clients)
subscribe_failed == SumOver(sub_failed, Clients)
connection_errors == SumOver(conn_errors, Clients)
filter_updates == SumOver(filter_upd, Clients)
messages_received == SumOver(msgs_received, Clients)

\* Histogram::record(v).ok(): the value is kept when the histogram can track
\* it; otherwise record returns Err, which .ok() discards.
Record(h, v) == IF v <= HistMaxTrackable THEN Append(h, v) ELSE h

\* The three histograms, each behind its own Mutex, in the order print_summary
\* locks them.
HistOrder == <<"subscribe_latency", "filter_update_latency", "e2e_latency">>
Hists == {HistOrder[i] : i \in 1 .. Len(HistOrder)}

\* The holder of a Mutex: nobody, a client task, or print_summary.
NoOwner == [by |-> "none"]
ByClient(c) == [by |-> "client", id |-> c]
BySummary == [by |-> "summary"]

\* A client's handler is not at a lock, or has reached
\* metrics.<hist>.lock().await with the latency v to record.
NotLocking == [at |-> "none"]
AtLock(hist, v) == [at |-> "lock", hist |-> hist, v |-> v]


\* ------------------------------------------------------ inbound messages
\* Option<u64>::None
NoneU64 == -1

\* A JSON value found under a "timestamp" key: an unsigned integer, a string
\* (its characters), or anything else (a negative number, a float, an object);
\* Absent when the key is missing.
UInt(n) == [k |-> "uint", v |-> n]
Str(s) == [k |-> "str", s |-> s]
Other == [k |-> "other"]
Absent == [k |-> "absent"]
Digits == <<"0", "1", "2", "3", "4", "5", "6", "7", "8", "9">>

DigitOf(ch) == CHOOSE d \in 0 .. 9 : Digits[d + 1] = ch
IsDigit(ch) == \E d \in 0 .. 9 : Digits[d + 1] = ch

RECURSIVE DigitsValue(_)
DigitsValue(s) ==
    IF s = <<>> THEN 0
    ELSE 10 * DigitsValue(SubSeq(s, 1, Len(s) - 1)) + DigitOf(s[Len(s)])

\* str::parse::<u64>: an optional leading "+", then one or more decimal digits.
ParseU64(s) ==
    LET body == IF s # <<>> /\ s[1] = "+" THEN Tail(s) ELSE s
    IN IF body # <<>> /\ \A i \in 1 .. Len(body) : IsDigit(body[i])
       THEN DigitsValue(body)
       ELSE NoneU64

\* ts.as_u64().or_else(|| ts.as_str().and_then(|s| s.parse::<u64>().ok()))
TsValue(ts) ==
    IF ts.k = "uint" THEN ts.v
    ELSE IF ts.k = "str" THEN ParseU64(ts.s)
    ELSE NoneU64

\* The "tags" value of a message or of its data: missing, or a value whose
\* get("timestamp") is ts (Absent when it holds no such key).
NoTags == [present |-> FALSE]
Tags(ts) == [present |-> TRUE, ts |-> ts]
\* The "data" value of a message.
NoData == [present |-> FALSE]
Data(tags, ts) == [present |-> TRUE, tags |-> tags, timestamp |-> ts]

ExtractTimestamp(msg) ==
    LET root ==
            IF msg.tags.present /\ msg.tags.ts # Absent
            THEN TsValue(msg.tags.ts)
            ELSE NoneU64
        inner ==
            IF ~msg.data.present THEN NoneU64
            ELSE IF msg.data.tags.present
                 THEN IF msg.data.tags.ts # Absent
                      THEN TsValue(msg.data.tags.ts)
                      ELSE NoneU64
                 ELSE IF msg.data.timestamp # Absent
                      THEN TsValue(msg.data.timestamp)
                      ELSE NoneU64
    IN IF root # NoneU64 THEN root ELSE inner

\* u64::saturating_sub
SaturatingSub(a, b) == IF a >= b THEN a - b ELSE 0

\* The payloads of the data events the server delivers in the explored runs.
Payloads ==
    { [tags |-> Tags(UInt(NowMs - 17)), data |-> NoData],
      [tags |-> Tags(UInt(NowMs + 5)), data |-> NoData],
      [tags |-> Tags(Str(<<"4", "0", "0", "0", "0">>)), data |-> NoData],
      [tags |-> NoTags, data |-> NoData],
      [tags |-> NoTags, data |-> Data(Tags(Absent), UInt(NowMs - 17))],
      [tags |-> Tags(Absent),
       data |-> Data(NoTags, Str(<<"9", "9", "9", "8", "3">>))] }

\* config.channel, another channel name, and Option::None
Channel == "trident_filter_tokens_v1"
Channels == {Channel, "other", "<none>"}

ControlEvents ==
    {"pusher:ping", "pusher:connection_established",
     "pusher_internal:subscription_succeeded", "pusher:error"}

\* What read.next() can yield: a text frame (raw "ping", a parsable Pusher
\* message, or text that does not parse), a close frame, a receive error, the
\* end of the stream, or another frame type (binary, ping, pong).
Frames ==
    {[kind |-> k] : k \in {"raw_ping", "unparsable", "close", "error", "end", "binary"}}
    \cup {[kind |-> "msg", event |-> e, channel |-> "<none>", tags |-> NoTags,
           data |-> NoData] : e \in ControlEvents}
    \cup {[kind |-> "msg", event |-> "update", channel |-> Channel, tags |-> p.tags,
           data |-> p.data] : p \in Payloads}
    \cup {[kind |-> "msg", event |-> "update", channel |-> ch,
           tags |-> Tags(UInt(NowMs - 17)), data |-> NoData] : ch \in Channels}

\* A pusher_internal:subscription_succeeded frame.
IsAck(f) == f.kind = "msg" /\ f.event = "pusher_internal:subscription_succeeded"

\* Instant::elapsed().as_millis() at an acknowledgment.
Latencies == {17, 70000}

\* ------------------------------------------------------------ run_client
\* tokens.get_random() unwraps choose() on the pool: it panics when the pool
\* is empty. Scenarios 3, 4 and 5 call get_random_unique, which does not.
BuildFilterPanics == scenario \notin {3, 4, 5} /\ pool_size = 0

\* tokio::time::interval panics when its period is zero.
IntervalPanics == scenario = 2 /\ filter_update_interval = 0

\* The task unwinds: nothing after the panic site runs.
Panic(c) ==
    /\ pc' = [pc EXCEPT ![c] = "exited"]
    /\ exit_cause' = [exit_cause EXCEPT ![c] = "panic"]
    /\ UNCHANGED active_connections

\* break out of the loop: the code after the loop runs.
BreakLoop(c, cause) ==
    /\ pc' = [pc EXCEPT ![c] = "exited"]
    /\ exit_cause' = [exit_cause EXCEPT ![c] = cause]
    /\ active_connections' = active_connections - 1

\* The loop goes on to its next select cycle.
StayInLoop == UNCHANGED <<pc, exit_cause, active_connections>>

\* write.send(frame).await: the frame goes out, or the send fails and the
\* loop is left.
Send(c, frame, ok) ==
    IF ok
    THEN out' = [out EXCEPT ![c] = Append(@, frame)] /\ StayInLoop
    ELSE UNCHANGED out /\ BreakLoop(c, "send_error")

\* ClientConnectFail with the error arm falling through to the code after the
\* loop instead of returning.
ClientConnectFail_FallsThrough(c) ==
    /\ pc[c] = "connecting"
    /\ conn_errors' = [conn_errors EXCEPT ![c] = @ + 1]
    /\ pc' = [pc EXCEPT ![c] = "exited"]
    /\ exit_cause' = [exit_cause EXCEPT ![c] = "connect_error"]
    /\ active_connections' = active_connections - 1
    /\ UNCHANGED <<call, cfgvars, lockvars, schedvars, shutdown_rx, localvars, out,
                   sub_success, sub_failed, filter_upd, msgs_received, sub_hist,
                   filter_hist, e2e_hist, events>>

\* connect_async failed.
ClientConnectFail(c) ==
    /\ pc[c] = "connecting"
    /\ conn_errors' = [conn_errors EXCEPT ![c] = @ + 1]
    /\ pc' = [pc EXCEPT ![c] = "exited"]
    /\ exit_cause' = [exit_cause EXCEPT ![c] = "connect_error"]
    /\ UNCHANGED <<call, cfgvars, lockvars, schedvars, shutdown_rx, localvars, out, active_connections,
                   sub_success, sub_failed, filter_upd, msgs_received, sub_hist,
                   filter_hist, e2e_hist, events>>

\* connect_async succeeded; the locals and the update timer are set up.
ClientConnectOk(c) ==
    /\ pc[c] = "connecting"
    /\ active_connections' = active_connections + 1
    /\ IF IntervalPanics
       THEN /\ pc' = [pc EXCEPT ![c] = "exited"]
            /\ exit_cause' = [exit_cause EXCEPT ![c] = "panic"]
       ELSE /\ pc' = [pc EXCEPT ![c] = "loop"]
            /\ UNCHANGED exit_cause
    /\ UNCHANGED <<call, cfgvars, lockvars, schedvars, shutdown_rx, localvars, out, metricvars, events>>

\* select!: the shutdown branch.
ClientShutdown(c) ==
    /\ pc[c] = "loop"
    /\ shutdown_rx[c] = "msg"
    /\ shutdown_rx' = [shutdown_rx EXCEPT ![c] = "taken"]
    /\ BreakLoop(c, "shutdown")
    /\ UNCHANGED <<call, cfgvars, lockvars, schedvars, localvars, out, metricvars, events>>

\* OnTick without the test of subscribed: every tick sends an update.
OnTick_Unguarded(c, ok) ==
    IF BuildFilterPanics
    THEN Panic(c) /\ UNCHANGED <<update_time, is_updating, out>>
    ELSE /\ update_time' = [update_time EXCEPT ![c] = TRUE]
         /\ is_updating' = [is_updating EXCEPT ![c] = TRUE]
         /\ Send(c, "update", ok)

\* select!: the filter-update branch (the timer exists in scenario 2 only).
OnTick(c, ok) ==
    IF subscribed[c]
    THEN IF BuildFilterPanics
         THEN Panic(c) /\ UNCHANGED <<update_time, is_updating, out>>
         ELSE /\ update_time' = [update_time EXCEPT ![c] = TRUE]
              /\ is_updating' = [is_updating EXCEPT ![c] = TRUE]
              /\ Send(c, "update", ok)
    ELSE StayInLoop /\ UNCHANGED <<update_time, is_updating, out>>

ClientTick(c) ==
    /\ pc[c] = "loop"
    /\ scenario = 2
    /\ events > 0
    /\ events' = events - 1
    /\ \E ok \in BOOLEAN : OnTick(c, ok)
    /\ UNCHANGED <<call, cfgvars, lockvars, schedvars, shutdown_rx, subscribe_time, subscribed,
                   metricvars>>

\* select!: the read.next() branch, by what was read.
\* Text "ping"
OnRawPing(c, ok) ==
    /\ Send(c, "pong", ok)
    /\ UNCHANGED <<localvars, metricvars>>

\* OnPusherPing answering with the raw text "pong".
OnPusherPing_RawReply(c, ok) ==
    /\ Send(c, "pong", ok)
    /\ UNCHANGED <<localvars, metricvars>>

\* "pusher:ping"
OnPusherPing(c, ok) ==
    /\ Send(c, "pusher:pong", ok)
    /\ UNCHANGED <<localvars, metricvars>>

\* "pusher:connection_established"
OnConnectionEstablished(c, ok) ==
    /\ IF BuildFilterPanics
       THEN Panic(c) /\ UNCHANGED <<subscribe_time, out>>
       ELSE /\ subscribe_time' = [subscribe_time EXCEPT ![c] = TRUE]
            /\ Send(c, "subscribe", ok)
    /\ UNCHANGED <<update_time, subscribed, is_updating, metricvars>>

\* "pusher_internal:subscription_succeeded"; lat is the time elapsed since
\* update_time (an update is outstanding) or since subscribe_time.
OnSubscriptionSucceeded(c, lat) ==
    /\ IF is_updating[c]
       THEN /\ IF update_time[c]
               THEN /\ filter_hist' = [filter_hist EXCEPT ![c] = Record(@, lat)]
                    /\ filter_upd' = [filter_upd EXCEPT ![c] = @ + 1]
               ELSE UNCHANGED <<filter_hist, filter_upd>>
            /\ is_updating' = [is_updating EXCEPT ![c] = FALSE]
            /\ UNCHANGED <<sub_hist, sub_success, subscribed>>
       ELSE /\ IF subscribe_time[c]
               THEN /\ sub_hist' = [sub_hist EXCEPT ![c] = Record(@, lat)]
                    /\ sub_success' = [sub_success EXCEPT ![c] = @ + 1]
                    /\ subscribed' = [subscribed EXCEPT ![c] = TRUE]
               ELSE UNCHANGED <<sub_hist, sub_success, subscribed>>
            /\ UNCHANGED <<filter_hist, filter_upd, is_updating>>
    /\ StayInLoop
    /\ UNCHANGED <<subscribe_time, update_time, out, conn_errors, sub_failed,
                   msgs_received, e2e_hist>>

\* "pusher:error"
OnPusherError(c) ==
    /\ sub_failed' = [sub_failed EXCEPT ![c] = @ + 1]
    /\ StayInLoop
    /\ UNCHANGED <<localvars, out, conn_errors, sub_success, filter_upd, msgs_received,
                   sub_hist, filter_hist, e2e_hist>>

\* RecordE2E with the sanity check written latency <= 60_000.
RecordE2E_Inclusive(h, msg) ==
    LET ts == ExtractTimestamp(msg)
        latency == SaturatingSub(NowMs, ts)
    IN IF ts # NoneU64 /\ latency <= E2ELimit THEN Record(h, latency) ELSE h

\* The end-to-end sample of a counted message, when it has one.
RecordE2E(h, msg) ==
    LET ts == ExtractTimestamp(msg)
        latency == SaturatingSub(NowMs, ts)
    IN IF ts # NoneU64 /\ latency < E2ELimit THEN Record(h, latency) ELSE h

\* OnChannelMessage with the sample taken for every event on the channel,
\* before the test that decides whether the message counts.
OnChannelMessage_SampleBeforeCount(c, msg) ==
    /\ IF msg.channel = Channel
       THEN /\ e2e_hist' = [e2e_hist EXCEPT ![c] = RecordE2E(@, msg)]
            /\ msgs_received' =
                  [msgs_received EXCEPT ![c] = IF subscribed[c] THEN @ + 1 ELSE @]
       ELSE UNCHANGED <<msgs_received, e2e_hist>>
    /\ StayInLoop
    /\ UNCHANGED <<localvars, out, conn_errors, sub_success, sub_failed, filter_upd,
                   sub_hist, filter_hist>>

\* any other event: a channel message
OnChannelMessage(c, msg) ==
    /\ IF subscribed[c] /\ msg.channel = Channel
       THEN /\ msgs_received' = [msgs_received EXCEPT ![c] = @ + 1]
            /\ e2e_hist' = [e2e_hist EXCEPT ![c] = RecordE2E(@, msg)]
       ELSE UNCHANGED <<msgs_received, e2e_hist>>
    /\ StayInLoop
    /\ UNCHANGED <<localvars, out, conn_errors, sub_success, sub_failed, filter_upd,
                   sub_hist, filter_hist>>

\* Message::Close, and None (the stream ended)
OnClose(c) ==
    /\ BreakLoop(c, "closed")
    /\ UNCHANGED <<localvars, out, metricvars>>

\* Some(Err(e))
OnRecvError(c) ==
    /\ conn_errors' = [conn_errors EXCEPT ![c] = @ + 1]
    /\ BreakLoop(c, "recv_error")
    /\ UNCHANGED <<localvars, out, sub_success, sub_failed, filter_upd, msgs_received,
                   sub_hist, filter_hist, e2e_hist>>

\* text that does not parse, and frames of other types: nothing happens
OnIgnored(c) ==
    /\ StayInLoop
    /\ UNCHANGED <<localvars, out, metricvars>>

OnFrame(c, f) ==
    CASE f.kind = "raw_ping" -> \E ok \in BOOLEAN : OnRawPing(c, ok)
      [] f.kind \in {"close", "end"} -> OnClose(c)
      [] f.kind = "error" -> OnRecvError(c)
      [] f.kind = "msg" /\ f.event = "pusher:ping" ->
            \E ok \in BOOLEAN : OnPusherPing(c, ok)
      [] f.kind = "msg" /\ f.event = "pusher:connection_established" ->
            \E ok \in BOOLEAN : OnConnectionEstablished(c, ok)
      [] f.kind = "msg" /\ f.event = "pusher_internal:subscription_succeeded" ->
            \E lat \in Latencies : OnSubscriptionSucceeded(c, lat)
      [] f.kind = "msg" /\ f.event = "pusher:error" -> OnPusherError(c)
      [] f.kind = "msg" /\ f.event \notin ControlEvents -> OnChannelMessage(c, f)
      [] OTHER -> OnIgnored(c)

\* read.next() yields frame f and the branch runs to the end of its handler.
Deliver(c, f) ==
    /\ pc[c] = "loop"
    /\ events > 0
    /\ events' = events - 1
    /\ OnFrame(c, f)
    /\ UNCHANGED <<call, cfgvars, lockvars, schedvars, shutdown_rx>>

ClientRecv(c) == \E f \in Frames : Deliver(c, f)

\* ------------------------------------------------------ run_ramping_test
\* (clients_per_second * elapsed).min(num_clients as f64) as usize, where
\* clients_per_second = num_clients / ramp_duration in f64: with a zero
\* ramp_duration the product is infinite or NaN, and min gives num_clients.
TargetNow(e) ==
    IF ramp_duration = 0
    THEN num_clients
    ELSE Min(num_clients, (num_clients * e) \div ramp_duration)

\* let id = spawned: the id given to the i-th task spawned (i from 0).
TaskId(i) == i

\* One pass of the stage 1 loop: spawn up to the target, then sleep.
RampPoll ==
    /\ phase = "rampup"
    /\ spawned < num_clients
    /\ LET target == Max(spawned, TargetNow(elapsed))
       IN /\ spawned' = target
          /\ pc' = [c \in Clients |->
                      IF spawned <= c /\ c < target THEN "connecting" ELSE pc[c]]
          /\ shutdown_rx' = [c \in Clients |->
                      IF spawned <= c /\ c < target THEN "empty" ELSE shutdown_rx[c]]
    /\ \E d \in 1 .. 2 : elapsed' = elapsed + d
    /\ UNCHANGED <<call, cfgvars, lockvars, phase, joined, exit_cause, localvars, out,
                   active_connections, metricvars, events>>

\* RampDone with stage 1 left on the ramp time alone, whatever was spawned.
RampDone_OnTimeAlone ==
    /\ phase = "rampup"
    /\ phase' = "hold"
    /\ elapsed' = 0
    /\ UNCHANGED <<call, cfgvars, lockvars, spawned, joined, shutdown_rx, pc, exit_cause,
                   localvars, out, active_connections, metricvars, events>>

\* Stage 1 is complete (the rest of the ramp time is slept); stage 2 begins
\* with a new stage_start.
RampDone ==
    /\ phase = "rampup"
    /\ spawned >= num_clients
    /\ phase' = "hold"
    /\ elapsed' = 0
    /\ UNCHANGED <<call, cfgvars, lockvars, spawned, joined, shutdown_rx, pc, exit_cause,
                   localvars, out, active_connections, metricvars, events>>

\* broadcast::Sender::send: every receiver subscribed so far gets the value.
Broadcast(rx) == [c \in Clients |-> IF rx[c] = "empty" THEN "msg" ELSE rx[c]]

\* Stage 2 is over; stage 3 begins by signalling shutdown.
HoldDone ==
    /\ phase = "hold"
    /\ phase' = "rampdown"
    /\ shutdown_rx' = Broadcast(shutdown_rx)
    /\ UNCHANGED <<call, cfgvars, lockvars, spawned, elapsed, joined, pc, exit_cause, localvars, out,
                   active_connections, metricvars, events>>

AllTasksFinished == \A c \in Clients : c < spawned => pc[c] = "exited"

\* select!: join_all(tasks) completed before the 30 s sleep.
JoinAll ==
    /\ phase = "rampdown"
    /\ AllTasksFinished
    /\ phase' = "done"
    /\ joined' = spawned
    /\ UNCHANGED <<call, cfgvars, lockvars, spawned, elapsed, shutdown_rx, pc, exit_cause, localvars,
                   out, active_connections, metricvars, events>>

\* JoinTimeout without the race against the join: the wait ends only once
\* every task has finished.
JoinTimeout_WaitsForTasks ==
    /\ phase = "rampdown"
    /\ AllTasksFinished
    /\ phase' = "done"
    /\ UNCHANGED <<call, cfgvars, lockvars, spawned, elapsed, joined, shutdown_rx, pc, exit_cause,
                   localvars, out, active_connections, metricvars, events>>

\* select!: the 30 s sleep completed first; the join is dropped.
JoinTimeout ==
    /\ phase = "rampdown"
    /\ phase' = "done"
    /\ UNCHANGED <<call, cfgvars, lockvars, spawned, elapsed, joined, shutdown_rx, pc, exit_cause,
                   localvars, out, active_connections, metricvars, events>>

\* ------------------------------------------------------------ the system
ZeroOf == [c \in Clients |-> 0]
FalseOf == [c \in Clients |-> FALSE]
EmptyOf == [c \in Clients |-> <<>>]

\* Scenario 3 runs the client as scenario 1 does, up to the panic of an empty pool.
Scenarios == {1, 2}
\* filter_update_interval is read in scenario 2 only.
Intervals(s) == IF s = 2 THEN {0, UpdateInterval} ELSE {UpdateInterval}

\* What run_ramping_test and Metrics::new start from: nothing spawned, every
\* counter zero, every histogram empty.
InitRun ==
    /\ phase = "rampup"
    /\ spawned = 0
    /\ elapsed = 0
    /\ joined = 0
    /\ shutdown_rx = [c \in Clients |-> "none"]
    /\ pc = [c \in Clients |-> "unspawned"]
    /\ exit_cause = [c \in Clients |-> "none"]
    /\ subscribe_time = FalseOf
    /\ update_time = FalseOf
    /\ subscribed = FalseOf
    /\ is_updating = FalseOf
    /\ out = EmptyOf
    /\ active_connections = 0
    /\ conn_errors = ZeroOf
    /\ sub_success = ZeroOf
    /\ sub_failed = ZeroOf
    /\ filter_upd = ZeroOf
    /\ msgs_received = ZeroOf
    /\ sub_hist = EmptyOf
    /\ filter_hist = EmptyOf
    /\ e2e_hist = EmptyOf
    /\ mutex = [h \in Hists |-> NoOwner]
    /\ locking = [c \in Clients |-> NotLocking]

\* In a run no function is examined on its own.
NoCall == [fn |-> "none"]

Init ==
    /\ num_clients \in 0 .. MaxClients
    /\ ramp_duration = RampTicks
    /\ scenario \in Scenarios
    /\ pool_size \in {0, PoolSize}
    /\ filter_update_interval \in Intervals(scenario)
    /\ events = MaxEvents
    /\ InitRun
    /\ call = NoCall

Next ==
    \/ RampPoll
    \/ RampDone
    \/ HoldDone
    \/ JoinAll
    \/ JoinTimeout
    \/ \E c \in Clients : ClientConnectFail(c)
    \/ \E c \in Clients : ClientConnectOk(c)
    \/ \E c \in Clients : ClientShutdown(c)
    \/ \E c \in Clients : ClientTick(c)
    \/ \E c \in Clients : ClientRecv(c)

Spec == Init /\ [][Next]_vars

\* ------------------------------------------------------- one-client runs
\* One client, every configuration, and a longer exchange with the server.
SoloInit ==
    /\ num_clients = 1
    /\ ramp_duration = RampTicks
    /\ scenario \in Scenarios
    /\ pool_size \in {0, PoolSize}
    /\ filter_update_interval \in Intervals(scenario)
    /\ events = SoloEvents
    /\ InitRun
    /\ call = NoCall

SoloSpec == SoloInit /\ [][Next]_vars

\* ------------------------------------------ runs that follow the scheduler
\* Every configuration and client count, with few frames from the server.
QuietInit ==
    /\ num_clients \in 0 .. MaxClients
    /\ ramp_duration = RampTicks
    /\ scenario \in Scenarios
    /\ pool_size \in {0, PoolSize}
    /\ filter_update_interval \in Intervals(scenario)
    /\ events = QuietEvents
    /\ InitRun
    /\ call = NoCall

QuietSpec == QuietInit /\ [][Next]_vars

\* ------------------------------------------------- runs of every scenario
\* --scenario: the five arms build_filter names, and one value of its
\* catch-all arm.
AllScenarios == {1, 2, 3, 4, 5, 6}

\* One client, every scenario and configuration.
ScenarioInit ==
    /\ num_clients = 1
    /\ ramp_duration = RampTicks
    /\ scenario \in AllScenarios
    /\ pool_size \in {0, PoolSize}
    /\ filter_update_interval \in Intervals(scenario)
    /\ events = ScenarioEvents
    /\ InitRun
    /\ call = NoCall

ScenarioSpec == ScenarioInit /\ [][Next]_vars

\* ------------------------------------------------------ runs scheduled fairly
\* The scheduler's sleeps end, so each of its stages goes on; and a client in
\* its loop whose shutdown receiver holds the signal takes the shutdown branch
\* in the end: select! starts its poll at a branch chosen at random, so a
\* ready shutdown.recv() cannot lose to the other branches forever. Nothing
\* is assumed of the network: a connect may never complete, and frames come
\* or do not.
Fairness ==
    /\ WF_vars(RampPoll)
    /\ WF_vars(RampDone)
    /\ WF_vars(HoldDone)
    /\ WF_vars(JoinTimeout)
    /\ \A c \in Clients : WF_vars(ClientShutdown(c))

FairSpec == QuietInit /\ [][Next]_vars /\ Fairness

\* ------------------------------------------- runs against an in-order server
\* The pusher:subscribe frames client c has sent, initial and updates.
SubscribeFrames(c) == SelectSeq(out[c], LAMBDA m : m \in {"subscribe", "update"})

\* The acknowledgments client c has handled: each one counted a subscribe
\* success or a filter update.
AcksHandled(c) == sub_success[c] + filter_upd[c]

\* The server greets a connection once, and acknowledges every subscribe
\* frame, in order: an acknowledgment arrives only for a frame sent and not
\* yet acknowledged. Everything else it may send at any time.
InOrderFrames(c) ==
    {f \in Frames :
        IF f.kind = "msg" /\ f.event = "pusher:connection_established"
        THEN ~subscribe_time[c]
        ELSE IF f.kind = "msg" /\ f.event = "pusher_internal:subscription_succeeded"
        THEN AcksHandled(c) < Len(SubscribeFrames(c))
        ELSE TRUE}

InOrderRecv(c) == \E f \in InOrderFrames(c) : Deliver(c, f)

\* One client of scenario 2 with a non-empty pool and the default interval.
InOrderInit ==
    /\ num_clients = 1
    /\ ramp_duration = RampTicks
    /\ scenario = 2
    /\ pool_size = PoolSize
    /\ filter_update_interval = UpdateInterval
    /\ events = InOrderEvents
    /\ InitRun
    /\ call = NoCall

InOrderNext ==
    \/ RampPoll
    \/ RampDone
    \/ HoldDone
    \/ JoinAll
    \/ JoinTimeout
    \/ \E c \in Clients : ClientConnectFail(c)
    \/ \E c \in Clients : ClientConnectOk(c)
    \/ \E c \in Clients : ClientShutdown(c)
    \/ \E c \in Clients : ClientTick(c)
    \/ \E c \in Clients : InOrderRecv(c)

InOrderSpec == InOrderInit /\ [][InOrderNext]_vars

\* --------------------------------------- runs that follow the histogram locks
\* Above, a handler that records a sample runs as one step. Here it runs in
\* three: up to metrics.<hist>.lock().await, the lock taken, and the record
\* with the guard dropped and the rest of the handler.

\* The record the handler of frame f makes for client c, lat being the time
\* elapsed at an acknowledgment; NotLocking when the handler takes no lock.
LockOf(c, f, lat) ==
    IF IsAck(f)
    THEN IF is_updating[c]
         THEN IF update_time[c] THEN AtLock("filter_update_latency", lat) ELSE NotLocking
         ELSE IF subscribe_time[c] THEN AtLock("subscribe_latency", lat) ELSE NotLocking
    ELSE IF /\ f.kind = "msg"
            /\ f.event \notin ControlEvents
            /\ subscribed[c]
            /\ f.channel = Channel
            /\ ExtractTimestamp(f) # NoneU64
            /\ SaturatingSub(NowMs, ExtractTimestamp(f)) < E2ELimit
         THEN AtLock("e2e_latency", SaturatingSub(NowMs, ExtractTimestamp(f)))
         ELSE NotLocking

\* The task is in its select!, not inside a handler.
Idle(c) == locking[c] = NotLocking

\* read.next() yields a frame whose handler runs up to lock().await; a data
\* message has been counted by then.
HandlerToLock(c) ==
    /\ pc[c] = "loop"
    /\ Idle(c)
    /\ events > 0
    /\ events' = events - 1
    /\ \E f \in Frames, lat \in Latencies :
          /\ LockOf(c, f, lat) # NotLocking
          /\ locking' = [locking EXCEPT ![c] = LockOf(c, f, lat)]
          /\ msgs_received' =
                [msgs_received EXCEPT ![c] = IF IsAck(f) THEN @ ELSE @ + 1]
    /\ UNCHANGED <<call, cfgvars, schedvars, shutdown_rx, pc, exit_cause, localvars, out,
                   active_connections, conn_errors, sub_success, sub_failed, filter_upd,
                   sub_hist, filter_hist, e2e_hist, mutex>>

\* lock().await completes: the Mutex is free and the task takes it.
LockAcquire(c) ==
    /\ ~Idle(c)
    /\ mutex[locking[c].hist] = NoOwner
    /\ mutex' = [mutex EXCEPT ![locking[c].hist] = ByClient(c)]
    /\ UNCHANGED <<call, cfgvars, schedvars, shutdown_rx, pc, exit_cause, localvars, out,
                   active_connections, metricvars, locking, events>>

\* .record(latency).ok() under the guard, the guard dropped at the end of the
\* statement, and the handler run to its end.
RecordUnlock(c) ==
    /\ ~Idle(c)
    /\ mutex[locking[c].hist] = ByClient(c)
    /\ mutex' = [mutex EXCEPT ![locking[c].hist] = NoOwner]
    /\ locking' = [locking EXCEPT ![c] = NotLocking]
    /\ CASE locking[c].hist = "subscribe_latency" ->
              /\ sub_hist' = [sub_hist EXCEPT ![c] = Record(@, locking[c].v)]
              /\ sub_success' = [sub_success EXCEPT ![c] = @ + 1]
              /\ subscribed' = [subscribed EXCEPT ![c] = TRUE]
              /\ UNCHANGED <<filter_hist, filter_upd, is_updating, e2e_hist>>
         [] locking[c].hist = "filter_update_latency" ->
              /\ filter_hist' = [filter_hist EXCEPT ![c] = Record(@, locking[c].v)]
              /\ filter_upd' = [filter_upd EXCEPT ![c] = @ + 1]
              /\ is_updating' = [is_updating EXCEPT ![c] = FALSE]
              /\ UNCHANGED <<sub_hist, sub_success, subscribed, e2e_hist>>
         [] locking[c].hist = "e2e_latency" ->
              /\ e2e_hist' = [e2e_hist EXCEPT ![c] = Record(@, locking[c].v)]
              /\ UNCHANGED <<sub_hist, sub_success, subscribed, filter_hist, filter_upd,
                             is_updating>>
    /\ UNCHANGED <<call, cfgvars, schedvars, shutdown_rx, pc, exit_cause, subscribe_time,
                   update_time, out, active_connections, conn_errors, sub_failed,
                   msgs_received, events>>

\* read.next() yields a frame whose handler takes no lock.
LockFreeRecv(c) ==
    /\ Idle(c)
    /\ \E f \in Frames :
          /\ \A lat \in Latencies : LockOf(c, f, lat) = NotLocking
          /\ Deliver(c, f)

\* print_summary, called when run_ramping_test has returned: the next of its
\* three lock().await completes. The guards live to the end of the function.
SummaryLock ==
    /\ phase = "done"
    /\ \E i \in 1 .. Len(HistOrder) :
          /\ \A j \in 1 .. (i - 1) : mutex[HistOrder[j]] = BySummary
          /\ mutex[HistOrder[i]] = NoOwner
          /\ mutex' = [mutex EXCEPT ![HistOrder[i]] = BySummary]
    /\ UNCHANGED <<call, cfgvars, schedvars, shutdown_rx, pc, exit_cause, localvars, out,
                   active_connections, metricvars, locking, events>>

\* MaxClients clients of scenario 2 with a non-empty pool and the default interval.
LockInit ==
    /\ num_clients = MaxClients
    /\ ramp_duration = RampTicks
    /\ scenario = 2
    /\ pool_size = PoolSize
    /\ filter_update_interval = UpdateInterval
    /\ events = LockEvents
    /\ InitRun
    /\ call = NoCall

LockNext ==
    \/ RampPoll
    \/ RampDone
    \/ HoldDone
    \/ JoinAll
    \/ JoinTimeout
    \/ SummaryLock
    \/ \E c \in Clients : ClientConnectFail(c)
    \/ \E c \in Clients : ClientConnectOk(c)
    \/ \E c \in Clients : Idle(c) /\ ClientShutdown(c)
    \/ \E c \in Clients : Idle(c) /\ ClientTick(c)
    \/ \E c \in Clients : LockFreeRecv(c)
    \/ \E c \in Clients : HandlerToLock(c)
    \/ \E c \in Clients : LockAcquire(c)
    \/ \E c \in Clients : RecordUnlock(c)

LockSpec == LockInit /\ [][LockNext]_vars

\* ------------------------------------------- functions examined on their own
runvars == <<cfgvars, schedvars, shutdown_rx, pc, exit_cause, localvars, out,
             active_connections, metricvars, lockvars, events>>

\* No run is under way: no client is configured and nothing is delivered.
NoRun ==
    /\ num_clients = 0
    /\ ramp_duration = RampTicks
    /\ scenario = 1
    /\ pool_size = PoolSize
    /\ filter_update_interval = UpdateInterval
    /\ events = 0
    /\ InitRun

\* What a message can hold under a "timestamp" key: nothing, a value that is
\* neither an unsigned integer nor a string, unsigned integers, and strings
\* that do and do not parse.
TsVals ==
    {Absent, Other, UInt(NowMs - 17), UInt(7), Str(<<"7">>), Str(<<"4", "2">>),
     Str(<<"x">>), Str(<<>>)}
TagsVals == {NoTags} \cup {Tags(v) : v \in TsVals}
DataVals == {NoData} \cup {Data(t, v) : t \in TagsVals, v \in TsVals}

\* The tags and data of the messages whose timestamp is extracted.
Messages == {[tags |-> t, data |-> d] : t \in TagsVals, d \in DataVals}

\* The extraction of the send timestamp of pusher_msg, not yet run.
ExtractCall(m) ==
    [fn |-> "send_timestamp", pusher_msg |-> m, done |-> FALSE,
     send_timestamp |-> NoneU64]

ExtractInit ==
    /\ call \in {ExtractCall(m) : m \in Messages}
    /\ NoRun

\* The extraction runs to its end.
ExtractReturn ==
    /\ call.fn = "send_timestamp"
    /\ ~call.done
    /\ call' = [call EXCEPT !.done = TRUE,
                            !.send_timestamp = ExtractTimestamp(call.pusher_msg)]
    /\ UNCHANGED runvars

ExtractNext == ExtractReturn

ExtractSpec == ExtractInit /\ [][ExtractNext]_vars

\* The strings a token file can hold; load_from_file keeps them as read.
Addresses == {"0x00", "0x01", "0x02"}

\* TokenPool::addresses: any sequence of strings, repeated ones included.
Pools == UNION {[1 .. n -> Addresses] : n \in 0 .. MaxPool}

\* The count build_filter asks for in the scenarios with a Multiple filter.
FilterCount(s) == CASE s = 3 -> 10 [] s = 4 -> 100 [] s = 5 -> 500

Counts == (0 .. MaxCount) \cup {FilterCount(s) : s \in {3, 4, 5}}

\* tokens.get_random_unique(count), not yet run.
SampleCall(p, k) ==
    [fn |-> "get_random_unique", addresses |-> p, count |-> k, done |-> FALSE,
     vals |-> <<>>]

SampleInit ==
    /\ call \in {SampleCall(p, k) : p \in Pools, k \in Counts}
    /\ NoRun

\* The indices 0 .. len-1 are shuffled (any order can come out), the first
\* max_count of them are taken, and each is mapped to the address it indexes.
SampleReturn ==
    /\ call.fn = "get_random_unique"
    /\ ~call.done
    /\ LET max_count == Min(Len(call.addresses), call.count)
       IN \E indices \in Permutations(1 .. Len(call.addresses)) :
             call' = [call EXCEPT
                        !.done = TRUE,
                        !.vals = [i \in 1 .. max_count |-> call.addresses[indices[i]]]]
    /\ UNCHANGED runvars

SampleNext == SampleReturn

SampleSpec == SampleInit /\ [][SampleNext]_vars

\* ------------------------------------------------------------ properties
Spawned == {c \in Clients : c < spawned}
Live == {c \in Clients : pc[c] = "loop"}
RunComplete ==
    phase = "done" /\ spawned = num_clients /\ joined = spawned /\ AllTasksFinished
NoPanic == \A c \in Clients : exit_cause[c] # "panic"

\* Everything client c owns or has contributed.
ClientState(c) ==
    <<pc[c], exit_cause[c], subscribe_time[c], update_time[c], subscribed[c],
      is_updating[c], out[c], conn_errors[c], sub_success[c], sub_failed[c],
      filter_upd[c], msgs_received[c], sub_hist[c], filter_hist[c], e2e_hist[c]>>

\* C1: once the run is complete and every client has terminated (no task
\* having panicked), subscribe_success + subscribe_failed + connection_errors
\* equals the number of spawned clients.
C1_TalliesSumToN ==
    (RunComplete /\ NoPanic) =>
        subscribe_success + subscribe_failed + connection_errors = num_clients

\* The warm-up gate as a client observes it: whether a delivery on the channel
\* that carries a fresh timestamp would be sampled now.
GateObserved ==
    RecordE2E(<<>>, [tags |-> Tags(UInt(NowMs - 17)), data |-> NoData]) # <<>>

\* C2: the warm-up gate is false throughout ramp-up (and warm-up) and true
\* from the entry to the hold phase on.
C2_GateFalseUntilHold ==
    /\ phase = "rampup" => ~GateObserved
    /\ phase \in {"hold", "rampdown", "done"} => GateObserved

\* C3: while the scheduler is in ramp-up (the first phase, the gate false) no
\* client has recorded an end-to-end sample or a filter-update sample.
C3_NoSampleBeforeHold ==
    phase = "rampup" =>
        \A c \in Clients : e2e_hist[c] = <<>> /\ filter_hist[c] = <<>>

\* C4: for every client, a subscribe latency sample has been recorded if and
\* only if its subscribe success has been recorded.
C4_SampleIffSuccess ==
    \A c \in Clients : (sub_hist[c] # <<>>) <=> (sub_success[c] > 0)

\* C5: active_connections equals the number of clients that connected and have
\* not terminated (so it is never negative, and 0 once all have terminated).
C5_ActiveIsLive == active_connections = Cardinality(Live)

\* C6: a client whose shutdown signal is pending at the start of a select
\* cycle takes the shutdown branch: its step is the shutdown exit, and no
\* frame or tick changes anything of it.
C6_ShutdownFirst ==
    [][\A c \in Clients :
         (pc[c] = "loop" /\ shutdown_rx[c] = "msg") =>
             \/ exit_cause'[c] = "shutdown"
             \/ ClientState(c)' = ClientState(c)]_vars

C8_UnsubscribedIsFailed ==
    \A c \in Clients :
        (pc[c] = "exited" /\ exit_cause[c] \in {"shutdown", "closed"}
            /\ sub_success[c] = 0)
        => (sub_failed[c] = 1 /\ conn_errors[c] = 0)

\* C9: a client that got pusher:error after its subscribe was sent, was never
\* subscribed and ended without a transport error is counted under
\* subscribe_failed exactly once.
C9_ErrorCountedOnce ==
    \A c \in Clients :
        (pc[c] = "exited" /\ exit_cause[c] \in {"shutdown", "closed"}
            /\ subscribe_time[c] /\ sub_success[c] = 0 /\ conn_errors[c] = 0
            /\ sub_failed[c] >= 1)
        => sub_failed[c] = 1

\* C10: a failed connect counts one connection error and ends the client at
\* once, leaving active_connections and everything else of the client as it
\* was; the client never runs again.
C10_ConnectFailure ==
    [][\A c \in Clients :
         /\ (pc[c] = "connecting" /\ exit_cause'[c] = "connect_error") =>
               /\ pc'[c] = "exited"
               /\ conn_errors'[c] = conn_errors[c] + 1
               /\ active_connections' = active_connections
               /\ connection_errors' = connection_errors + 1
               /\ <<sub_success[c], sub_failed[c], filter_upd[c], msgs_received[c],
                    sub_hist[c], filter_hist[c], e2e_hist[c], out[c]>>'
                  = <<0, 0, 0, 0, <<>>, <<>>, <<>>, <<>>>>
         /\ exit_cause[c] = "connect_error" =>
               /\ ClientState(c)' = ClientState(c)
               /\ conn_errors[c] = 1]_vars

\* A client failed to connect while another one is connected.
C10_Witness ==
    \E c, d \in Clients :
        exit_cause[c] = "connect_error" /\ pc[d] = "loop" /\ active_connections = 1

\* Events that are none of the four control events, on the configured channel.
DataFrames ==
    {f \in Frames : f.kind = "msg" /\ f.event \notin ControlEvents /\ f.channel = Channel}

C12_SamplesWithinCount ==
    \A c \in Clients : Len(e2e_hist[c]) <= msgs_received[c]

\* A client has counted three messages and recorded the samples of two.
C12_Witness ==
    \E c \in Clients : msgs_received[c] = 3 /\ Len(e2e_hist[c]) = 2

\* C13: the phases follow one another in order; clients are spawned in
\* ramp-up only; a client gets the shutdown signal only by the one broadcast,
\* sent on the step from hold into ramp-down, when all num_clients clients are
\* spawned and each of them already holds its subscription; a client takes
\* the signal at most once.
C13_OrderedPhasesOneBroadcast ==
    [][/\ \/ phase' = phase
          \/ <<phase, phase'>> \in {<<"rampup", "hold">>, <<"hold", "rampdown">>,
                                    <<"rampdown", "done">>}
       /\ spawned' # spawned => (phase = "rampup" /\ phase' = "rampup")
       /\ (phase = "hold" /\ phase' = "rampdown") =>
             /\ spawned = num_clients
             /\ \A c \in Spawned : shutdown_rx[c] = "empty" /\ shutdown_rx'[c] = "msg"
       /\ \A c \in Clients :
             /\ (shutdown_rx[c] # "msg" /\ shutdown_rx'[c] = "msg") =>
                   (phase = "hold" /\ phase' = "rampdown" /\ c \in Spawned)
             /\ shutdown_rx[c] = "msg" => shutdown_rx'[c] \in {"msg", "taken"}
             /\ (shutdown_rx[c] # "taken" /\ shutdown_rx'[c] = "taken") =>
                   (shutdown_rx[c] = "msg" /\ exit_cause'[c] = "shutdown")
             /\ shutdown_rx[c] = "taken" => shutdown_rx'[c] = "taken"]_vars

\* After the broadcast one client has taken the signal and left, while it
\* waits in the receiver of another that is still connecting.
C13_Witness ==
    /\ phase = "rampdown"
    /\ \E c, d \in Clients :
          /\ shutdown_rx[c] = "taken" /\ exit_cause[c] = "shutdown"
          /\ shutdown_rx[d] = "msg" /\ pc[d] = "connecting"

\* Client-id offsets an operator may configure according to the
\* specification's option list (client-id-offset); Config has no such field.
ClientIdOffsets == {0, 1}

\* C14: at every poll of ramp-up the number of spawned clients does not
\* decrease and is at most min(N, floor(elapsed * N / R)) (N when R = 0);
\* ramp-up ends with exactly N clients spawned, never more; the ids of the
\* spawned tasks are pairwise distinct, the i-th being offset + i for the
\* configured offset.
C14_RampSpawnsOffsetIds ==
    [][/\ spawned' >= spawned
       /\ spawned' <= num_clients
       /\ (phase = "rampup" /\ spawned' # spawned) =>
             spawned' <= (IF ramp_duration = 0 THEN num_clients
                          ELSE Min(num_clients, (elapsed * num_clients) \div ramp_duration))
       /\ phase' # "rampup" => spawned' = num_clients
       /\ \A i, j \in Spawned' : i # j => TaskId(i) # TaskId(j)
       /\ \A offset \in ClientIdOffsets :
             \A i \in Spawned' : TaskId(i) = offset + i]_vars

\* C17: an event that is none of the four control events and carries the
\* configured channel adds exactly one to messages_received, whether or not
\* the receiving client's subscription has been acknowledged; one with an
\* absent or different channel adds nothing.
C17_DataDeliveryAlwaysCounted ==
    [][\A c \in Clients : \A f \in Frames :
         (f.kind = "msg" /\ f.event \notin ControlEvents /\ Deliver(c, f)) =>
             IF f.channel = Channel
             THEN messages_received' = messages_received + 1
             ELSE messages_received' = messages_received]_vars

\* C18: pusher:error received by a client whose subscription has succeeded
\* changes nothing: the client stays subscribed and in its loop, and no
\* counter and no sample changes.
C18_ErrorAfterSuccessLogOnly ==
    [][\A c \in Clients : \A f \in Frames :
         (f.kind = "msg" /\ f.event = "pusher:error" /\ subscribed[c] /\ Deliver(c, f)) =>
             /\ ClientState(c)' = ClientState(c)
             /\ <<subscribe_failed, subscribe_success, connection_errors>>'
                = <<subscribe_failed, subscribe_success, connection_errors>>]_vars

\* The update frames client c has sent.
UpdateFrames(c) == SelectSeq(out[c], LAMBDA m : m = "update")

\* C16: in scenario 2 against an in-order server a subscribed client has
\* counted subscribe success exactly once and never holds a second subscribe
\* sample, in every interleaving of ticks and acknowledgments; an
\* acknowledgment that reaches a client already subscribed is counted as a
\* filter update and leaves the subscribe count and the subscribe samples as
\* they were.
C16_SubscribedOnce ==
    [][\A c \in Clients :
         /\ subscribed'[c] => (sub_success'[c] = 1 /\ Len(sub_hist'[c]) <= 1)
         /\ \A f \in Frames :
               (IsAck(f) /\ subscribed[c] /\ Deliver(c, f)) =>
                   /\ filter_upd'[c] = filter_upd[c] + 1
                   /\ sub_success'[c] = sub_success[c]
                   /\ sub_hist'[c] = sub_hist[c]]_vars

\* C19: an acknowledgment handled while is_updating is set records exactly
\* one filter-update sample, clears is_updating, and leaves subscribed, the
\* subscribe samples and the subscribe_success count unchanged; a client never
\* holds more filter-update samples than it has sent update frames.
C19_UpdateAcknowledged ==
    [][\A c \in Clients :
         /\ \A f \in Frames :
               (IsAck(f) /\ is_updating[c] /\ Deliver(c, f)) =>
                   /\ Len(filter_hist'[c]) = Len(filter_hist[c]) + 1
                   /\ ~is_updating'[c]
                   /\ subscribed'[c] = subscribed[c]
                   /\ sub_hist'[c] = sub_hist[c]
                   /\ sub_success'[c] = sub_success[c]
         /\ Len(filter_hist'[c]) <= Len(UpdateFrames(c)')]_vars

\* C20: a tick that sends an update frame leaves update_time recorded and
\* is_updating set, and the acknowledgment of an update frame (the server
\* acknowledging in order) is handled with is_updating true.
C20_UpdateAckSeesFlag ==
    [][\A c \in Clients :
         /\ Len(UpdateFrames(c)') > Len(UpdateFrames(c)) =>
               (is_updating'[c] /\ update_time'[c])
         /\ \A f \in Frames :
               (/\ IsAck(f)
                /\ AcksHandled(c) < Len(SubscribeFrames(c))
                /\ SubscribeFrames(c)[AcksHandled(c) + 1] = "update"
                /\ Deliver(c, f)) => is_updating[c]]_vars

\* Client c is inside a frame handler, waiting for a Mutex another party holds.
Blocked(c) == ~Idle(c) /\ mutex[locking[c].hist] \notin {NoOwner, ByClient(c)}

\* C15: no client handling a frame ever waits on a lock: its handler is never
\* held up by another client or by the summary holding what it needs.
C15_NoWaitOnFramePath == \A c \in Clients : ~Blocked(c)

\* C21: a client sends an update frame only in scenario 2 and only once its
\* initial subscription has succeeded; a tick that fires before the client is
\* subscribed sends nothing and leaves update_time and is_updating as they
\* were; in every scenario other than 2 no update frame is ever sent,
\* is_updating is never set and the filter-update count stays 0.
C21_UpdateOnlySubscribedScenario2 ==
    [][\A c \in Clients :
         /\ Len(UpdateFrames(c)') > Len(UpdateFrames(c)) =>
               (scenario = 2 /\ subscribed[c] /\ sub_success[c] >= 1)
         /\ (ClientTick(c) /\ ~subscribed[c]) =>
               /\ out'[c] = out[c]
               /\ update_time'[c] = update_time[c] /\ ~update_time'[c]
               /\ is_updating'[c] = is_updating[c] /\ ~is_updating'[c]
         /\ scenario # 2 =>
               /\ UpdateFrames(c)' = <<>>
               /\ ~is_updating'[c]
               /\ filter_upd'[c] = 0
               /\ filter_updates' = 0]_vars

\* A subscribed client of scenario 2 has sent an update frame, after a tick
\* and other frames that came before its subscription was acknowledged.
C21_Witness ==
    \E c \in Clients :
        /\ scenario = 2 /\ subscribed[c] /\ is_updating[c] /\ update_time[c]
        /\ out[c] = <<"subscribe", "update">>
        /\ events = 0

\* C22: a client that leaves its loop on a transport error (a failed send of
\* a subscribe, update or pong frame, or a receive error) is marked as a
\* connection error, its connection_errors count going up by one to exactly
\* one, and the samples and counts it recorded before are kept; a client that
\* leaves by shutdown, close frame or stream end is not marked.
C22_TransportErrorMarked ==
    [][\A c \in Clients :
         (pc[c] = "loop" /\ pc'[c] = "exited" /\ exit_cause'[c] # "panic") =>
             /\ exit_cause'[c] \in {"send_error", "recv_error"} =>
                   (conn_errors'[c] = conn_errors[c] + 1 /\ conn_errors'[c] = 1)
             /\ exit_cause'[c] \in {"shutdown", "closed"} => conn_errors'[c] = 0
             /\ <<sub_success[c], sub_failed[c], filter_upd[c], msgs_received[c],
                  sub_hist[c], filter_hist[c], e2e_hist[c]>>'
                = <<sub_success[c], sub_failed[c], filter_upd[c], msgs_received[c],
                    sub_hist[c], filter_hist[c], e2e_hist[c]>>]_vars

\* The heartbeat frames, and the reply each one calls for.
IsPing(f) == f.kind = "raw_ping" \/ (f.kind = "msg" /\ f.event = "pusher:ping")
PongFor(f) == IF f.kind = "raw_ping" THEN "pong" ELSE "pusher:pong"

\* C23: a connected client, subscribed or not, answers each raw text "ping"
\* with exactly one raw "pong" and each pusher:ping with exactly one
\* pusher:pong, within the handling of that frame (the one send either puts
\* the reply on the wire or fails and ends the client); handling a ping
\* changes no counter, no sample and none of subscribed, is_updating,
\* subscribe_time, update_time.
C23_PingAnsweredOnce ==
    [][\A c \in Clients : \A f \in Frames :
         (IsPing(f) /\ Deliver(c, f)) =>
             /\ \/ /\ out'[c] = Append(out[c], PongFor(f))
                   /\ pc'[c] = "loop"
                   /\ active_connections' = active_connections
                \/ /\ out'[c] = out[c]
                   /\ exit_cause'[c] = "send_error"
             /\ \A d \in Clients \ {c} : out'[d] = out[d]
             /\ localvars' = localvars
             /\ metricvars' = metricvars]_vars

\* A client answered a raw ping before it subscribed and a pusher:ping after
\* its subscription was acknowledged.
C23_Witness ==
    \E c \in Clients :
        /\ out[c] = <<"pong", "subscribe", "pusher:pong">>
        /\ subscribed[c] /\ pc[c] = "loop"
        /\ sub_success[c] = 1 /\ msgs_received[c] = 0

\* The value under the timestamp key at the i-th location of the search order
\* (root tags, data.tags, data), Absent when the location does not exist.
TimestampAt(m, i) ==
    CASE i = 1 -> IF m.tags.present THEN m.tags.ts ELSE Absent
      [] i = 2 -> IF m.data.present /\ m.data.tags.present THEN m.data.tags.ts ELSE Absent
      [] i = 3 -> IF m.data.present THEN m.data.timestamp ELSE Absent

\* A message with every acceptable timestamp written as an unsigned integer.
AsIntegers(m) ==
    LET int(ts) == IF TsValue(ts) # NoneU64 THEN UInt(TsValue(ts)) ELSE ts
        tags(t) == IF t.present THEN Tags(int(t.ts)) ELSE t
    IN [tags |-> tags(m.tags),
        data |-> IF m.data.present
                 THEN Data(tags(m.data.tags), int(m.data.timestamp))
                 ELSE m.data]

\* C24: timestamp extraction returns the value at the first of the locations
\* root tags.timestamp, data.tags.timestamp, data.timestamp that holds an
\* unsigned integer or a decimal string of one, a later location being
\* consulted exactly when every earlier one is absent or unacceptable (so
\* data.timestamp is used when data.tags exists without a timestamp), and
\* nothing when no location holds one; the integer and the decimal-string
\* encoding of a number give the same result.
C24_FirstAcceptableLocation ==
    (call.fn = "send_timestamp" /\ call.done) =>
        LET m == call.pusher_msg
            hits == {i \in 1 .. 3 : TsValue(TimestampAt(m, i)) # NoneU64}
            first == CHOOSE i \in hits : \A j \in hits : i <= j
        IN /\ call.send_timestamp =
                 (IF hits = {} THEN NoneU64 ELSE TsValue(TimestampAt(m, first)))
           /\ call.send_timestamp = ExtractTimestamp(AsIntegers(m))

\* C25: for every token pool and every k, sampling k unique addresses
\* returns exactly min(k, pool size) entries, pairwise distinct strings, all
\* drawn from the pool (so the filter of scenario 3 carries 10 distinct vals
\* from a pool of 10 or more, and a k above the pool size gives pool-size
\* distinct entries).
C25_SampleUniqueDistinct ==
    (call.fn = "get_random_unique" /\ call.done) =>
        /\ Len(call.vals) = Min(call.count, Len(call.addresses))
        /\ \A i, j \in 1 .. Len(call.vals) : i # j => call.vals[i] # call.vals[j]
        /\ \A i \in 1 .. Len(call.vals) :
              \E j \in 1 .. Len(call.addresses) : call.vals[i] = call.addresses[j]

\* C26: under fair scheduling, once the shutdown signal has been broadcast
\* every client in its message loop eventually terminates, whatever frames
\* and ticks are still delivered to it, and active_connections eventually
\* returns to 0; a terminated client never processes another frame or
\* changes any counter.
C26_ShutdownTerminatesAll ==
    /\ \A c \in Clients :
          (phase \in {"rampdown", "done"} /\ pc[c] = "loop") ~> (pc[c] = "exited")
    /\ (phase \in {"rampdown", "done"}) ~> (active_connections = 0)
    /\ [][\A c \in Clients :
            pc[c] = "exited" => ClientState(c)' = ClientState(c)]_vars

====
